---- MODULE Spec2Model ----
(***************************************************************************)
(* Model of pyftdi/jtag.py: the TAP state machine (JtagStateMachine), the  *)
(* MPSSE framing layer (JtagController) and the engine (JtagEngine).       *)
(*                                                                         *)
(* Bit sequences (pyftdi.bits.BitSequence) are TLA+ sequences over {0,1}, *)
(* element 1 being the first bit shifted.  Byte strings are sequences over *)
(* 0..255.  Python indices are 0-based, TLA+ ones 1-based.                 *)
(***************************************************************************)
EXTENDS Integers, Sequences, FiniteSets, TLC

(***************************************************************************)
(* Bounds of the model.                                                    *)
(***************************************************************************)
\* number of public operations issued on one session
MaxOps == 2
\* every bit sequence of up to MaxBits bits is an argument of write
MaxBits == 1

(***************************************************************************)
(* JtagState / JtagStateMachine.__init__: the 16 states and their exits.   *)
(***************************************************************************)
States ==
    { "test_logic_reset", "run_test_idle", "select_dr_scan", "capture_dr",
      "shift_dr", "exit_1_dr", "pause_dr", "exit_2_dr", "update_dr",
      "select_ir_scan", "capture_ir", "shift_ir", "exit_1_ir", "pause_ir",
      "exit_2_ir", "update_ir" }

\* exits[s] = <<fstate, tstate>> as given to setx: the TMS=0 and the TMS=1 exit
exits ==
    [ test_logic_reset |-> <<"run_test_idle", "test_logic_reset">>,
      run_test_idle    |-> <<"run_test_idle", "select_dr_scan">>,
      select_dr_scan   |-> <<"capture_dr", "select_ir_scan">>,
      capture_dr       |-> <<"shift_dr", "exit_1_dr">>,
      shift_dr         |-> <<"shift_dr", "exit_1_dr">>,
      exit_1_dr        |-> <<"pause_dr", "update_dr">>,
      pause_dr         |-> <<"pause_dr", "exit_2_dr">>,
      exit_2_dr        |-> <<"shift_dr", "update_dr">>,
      update_dr        |-> <<"run_test_idle", "select_dr_scan">>,
      select_ir_scan   |-> <<"capture_ir", "test_logic_reset">>,
      capture_ir       |-> <<"shift_ir", "exit_1_ir">>,
      shift_ir         |-> <<"shift_ir", "exit_1_ir">>,
      exit_1_ir        |-> <<"pause_ir", "update_ir">>,
      pause_ir         |-> <<"pause_ir", "exit_2_ir">>,
      exit_2_ir        |-> <<"shift_ir", "update_ir">>,
      update_ir        |-> <<"run_test_idle", "select_dr_scan">> ]

\* getx with the two exits confused: x = event and 0 or 1
getx_swapped(state, event) == exits[state][(IF event # 0 THEN 0 ELSE 1) + 1]

\* JtagState.getx: x = event and 1 or 0; return self.exits[x]
getx(state, event) == exits[state][(IF event # 0 THEN 1 ELSE 0) + 1]

\* Python's "x in path" on a list
InList(x, list) == \E i \in 1..Len(list) : list[i] = x

\* max in the place of min: the first of the longest lists
RECURSIVE MaxByLen(_)
MaxByLen(paths) ==
    IF Len(paths) = 1 THEN paths[1]
    ELSE LET rest == MaxByLen(Tail(paths))
         IN  IF Len(rest) > Len(paths[1]) THEN rest ELSE paths[1]

\* min([(len(l), l) for l in paths], key=lambda x: x[0])[1]: the first of the
\* shortest lists of a non-empty list of lists
RECURSIVE MinByLen(_)
MinByLen(paths) ==
    IF Len(paths) = 1 THEN paths[1]
    ELSE LET rest == MinByLen(Tail(paths))
         IN  IF Len(rest) < Len(paths[1]) THEN rest ELSE paths[1]

\* one iteration of "for n,x in enumerate(state.exits)" of next_path: the
\* self loop and the loop back are skipped (no candidate: the empty list)
RECURSIVE next_path(_, _, _)
next_candidate(state, target, path, n) ==
    LET x == exits[state][n + 1]
    IN  IF x = state THEN <<>>
        ELSE IF InList(x, path) THEN <<>>
        ELSE next_path(x, target, Append(path, state))

\* next_path returning the upstream path alone when the target is met:
\* "return path" in the place of "return path+[state]"
next_path_without_target(state, target, path) ==
    IF state = target THEN path
    ELSE LET c0 == next_candidate(state, target, path, 0)
             c1 == next_candidate(state, target, path, 1)
             paths == (IF c0 # <<>> THEN <<c0>> ELSE <<>>)
                      \o (IF c1 # <<>> THEN <<c1>> ELSE <<>>)
         IN  IF paths # <<>> THEN MinByLen(paths) ELSE <<>>

\* the inner function next_path of find_path
next_path(state, target, path) ==
    IF state = target THEN Append(path, state)
    ELSE LET c0 == next_candidate(state, target, path, 0)
             c1 == next_candidate(state, target, path, 1)
             paths == (IF c0 # <<>> THEN <<c0>> ELSE <<>>)
                      \o (IF c1 # <<>> THEN <<c1>> ELSE <<>>)
         IN  IF paths # <<>> THEN MinByLen(paths) ELSE <<>>

\* next_path(source, target, []) for every source and target (the search
\* reads nothing but the exits, so its results are tabulated once)
PathTable ==
    [ source \in States |->
        [ target \in States |-> next_path(source, target, <<>>) ] ]

\* JtagStateMachine.find_path with an explicit source
find_path(target, source) == PathTable[source][target]

\* the events get_events collects for one (s, d) pair: every exit index of s
\* that leads to d
pair_events(s, d) ==
    (IF exits[s][1] = d THEN <<0>> ELSE <<>>)
    \o (IF exits[s][2] = d THEN <<1>> ELSE <<>>)

RECURSIVE collect_events(_, _)
collect_events(path, i) ==
    IF i >= Len(path) THEN <<>>
    ELSE pair_events(path[i], path[i + 1]) \o collect_events(path, i + 1)

\* JtagStateMachine.get_events: raised is the AssertionError("Invalid path")
get_events(path) ==
    LET events == collect_events(path, 1)
    IN  [ raised |-> Len(events) # Len(path) - 1, events |-> events ]

\* handle_events leaving out the last event
RECURSIVE handle_events_but_last(_, _)
handle_events_but_last(cur, events) ==
    IF Len(events) <= 1 THEN cur
    ELSE handle_events_but_last(getx(cur, Head(events)), Tail(events))

\* JtagStateMachine.handle_events, from the state cur
RECURSIVE handle_events(_, _)
handle_events(cur, events) ==
    IF events = <<>> THEN cur
    ELSE handle_events(getx(cur, Head(events)), Tail(events))

(***************************************************************************)
(* pyftdi.bits.BitSequence and struct.pack, as far as jtag.py uses them.   *)
(***************************************************************************)
Bit == {0, 1}

\* BitSequence.tobyte(): the first bit of the sequence is the least
\* significant bit of the byte (defined for at most 8 bits)
RECURSIVE tobyte(_)
tobyte(bits) ==
    IF bits = <<>> THEN 0 ELSE Head(bits) + 2 * tobyte(Tail(bits))

\* BitSequence.tobytes(msby=True) of a whole number of bytes: byte k holds
\* bits 8k .. 8k+7, the first of them in its least significant bit
tobytes(bits) ==
    [ k \in 1..(Len(bits) \div 8) |->
        bits[8 * k - 7] + 2 * bits[8 * k - 6] + 4 * bits[8 * k - 5]
        + 8 * bits[8 * k - 4] + 16 * bits[8 * k - 3] + 32 * bits[8 * k - 2]
        + 64 * bits[8 * k - 1] + 128 * bits[8 * k] ]

\* out[index] = value on a copy of out (0-based index): the payload bit
\* `index` is set; a shorter sequence is padded with 0 bits up to it
setitem(out, index, value) ==
    [ i \in 1..(IF Len(out) > index THEN Len(out) ELSE index + 1) |->
        IF i = index + 1 THEN value
        ELSE IF i <= Len(out) THEN out[i] ELSE 0 ]

\* struct.pack of one 'B' / 'H' field.  A value out of range raises
\* struct.error on Python >= 2.7 and is masked (with a warning) before 2.7:
\* masks tells which of the two builds runs.
InB(v) == v >= 0 /\ v <= 255
InH(v) == v >= 0 /\ v <= 65535
FieldH(v) == << v % 256, (v \div 256) % 256 >>

\* the length field holding the count itself
length_field_plain(count) == count

\* the length field of every command: "length-1", "len(bytes)-1"
length_field(count) == count - 1

\* struct.pack('<BBB', a, b, c)
pack_BBB(a, b, c, masks) ==
    [ raised |-> ~masks /\ ~(InB(a) /\ InB(b) /\ InB(c)),
      bytes  |-> << a % 256, b % 256, c % 256 >> ]

\* struct.pack('<BB', a, b)
pack_BB(a, b, masks) ==
    [ raised |-> ~masks /\ ~(InB(a) /\ InB(b)),
      bytes  |-> << a % 256, b % 256 >> ]

\* struct.pack('<BH', a, h)
pack_BH(a, h, masks) ==
    [ raised |-> ~masks /\ ~(InB(a) /\ InH(h)),
      bytes  |-> << a % 256 >> \o FieldH(h) ]

\* struct.pack('<BH%dB' % len(bytes), a, h, *bytes)
pack_BHnB(a, h, bytes, masks) ==
    [ raised |-> ~masks /\ ~(InB(a) /\ InH(h)),
      bytes  |-> << a % 256 >> \o FieldH(h) \o bytes ]

(***************************************************************************)
(* Ftdi opcodes (MPSSE command set) and JtagController's class constants.  *)
(***************************************************************************)
WRITE_BYTES_NVE_LSB == 25
WRITE_BITS_NVE_LSB == 27
READ_BYTES_NVE_LSB == 44
READ_BITS_NVE_LSB == 46
RW_BYTES_NVE_LSB == 61
WRITE_BITS_TMS_NVE == 75
SET_BITS_LOW == 128
\* self.direction = TCK_BIT | TDI_BIT | TMS_BIT | TRST_BIT
direction == 27
\* the buffer limit of _stack_cmd
MaxBuff == 512
\* the fifo limits of read_bits and read_bytes
MaxReadBits == 8
MaxReadBytes == 512

(***************************************************************************)
(* JtagController.  A session value s is a record                          *)
(*   current  JtagStateMachine._current                                    *)
(*   last     JtagController._last                                         *)
(*   buff     JtagController._write_buff                                   *)
(*   ftdi     TRUE while self.ftdi is the open device, FALSE once None     *)
(*   written  a write was called and no write_tms since                    *)
(*   tms_called  write_tms was called since construction                   *)
(*   err      the exception that ended the operation, "none" if none       *)
(*   frames   the commands appended to the buffer by the operation         *)
(*   xfers    the transport calls (write_data / read_data) it made, each   *)
(*            with the content of the buffer at the time of the call       *)
(*   cuts     the lengths of the commands now in the buffer, in order      *)
(*   tap      the state of the remote TAP: it starts in test_logic_reset   *)
(*            and steps once per TMS bit of every write-TMS command that   *)
(*            reaches the transport                                        *)
(*   ret      what the operation returns: a BitSequence, held as the bytes *)
(*            it was built from followed by further bits, or value (an     *)
(*            integer, -1 if it returns none)                              *)
(* Every step leaves s alone once s.err is set: the exception propagates.  *)
(***************************************************************************)
Raise(s, e) == [s EXCEPT !.err = e]

\* the remote TAP taking one command: a write-TMS command of length field l
\* steps it through the payload bits 0..l (the payload has 8 bits), any
\* other command leaves it in place
tap_frame(tap, f) ==
    IF f[1] = WRITE_BITS_TMS_NVE
    THEN handle_events(tap, [ i \in 1..(IF f[2] < 8 THEN f[2] + 1 ELSE 8) |->
                                (f[3] \div (2 ^ (i - 1))) % 2 ])
    ELSE tap

\* the remote TAP taking the commands of a buffer, cut as they were queued
RECURSIVE tap_run(_, _, _)
tap_run(tap, buff, cuts) ==
    IF cuts = <<>> THEN tap
    ELSE tap_run(tap_frame(tap, SubSeq(buff, 1, Head(cuts))),
                 SubSeq(buff, Head(cuts) + 1, Len(buff)), Tail(cuts))

\* self.ftdi.write_data(data)
write_data(s, data) ==
    [s EXCEPT !.xfers = Append(@, [kind |-> "write", data |-> data,
                                   n |-> Len(data), buffered |-> s.buff,
                                   tap |-> s.tap, current |-> s.current])]

\* self.ftdi.read_data(n): the device answers n bytes, each of value tdo
read_data(s, n, tdo) ==
    [s EXCEPT !.xfers = Append(@, [kind |-> "read",
                                   data |-> [i \in 1..n |-> tdo],
                                   n |-> n, buffered |-> s.buff,
                                   tap |-> s.tap, current |-> s.current])]

\* an operation that returns nothing, and the return of a BitSequence
NoRet == [bytes |-> <<>>, bits |-> <<>>, value |-> -1]
RetSeq(bytes, bits) == [bytes |-> bytes, bits |-> bits, value |-> -1]

\* BitSequence(value, length=length): the low bits of value, bit 0 first
RECURSIVE IntBits(_, _)
IntBits(value, length) ==
    IF length <= 0 THEN <<>>
    ELSE << value % 2 >> \o IntBits(value \div 2, length - 1)

\* BitSequence(bytes=data, length=8*len(data)): every byte, bit 0 first
BytesBits(data) ==
    [ i \in 1..(8 * Len(data)) |->
        (data[((i - 1) \div 8) + 1] \div (2 ^ ((i - 1) % 8))) % 2 ]

\* int(BitSequence): bit 0 is the least significant
RECURSIVE BitsInt(_)
BitsInt(bits) ==
    IF bits = <<>> THEN 0 ELSE Head(bits) + 2 * BitsInt(Tail(bits))

\* sync without its "self._write_buff = ''"
sync_keeping_buffer(s) ==
    IF s.err # "none" THEN s
    ELSE IF ~s.ftdi THEN Raise(s, "AssertionError")
    ELSE IF s.buff # <<>>
    THEN [write_data(s, s.buff) EXCEPT !.tap = tap_run(@, s.buff, s.cuts)]
    ELSE s

\* JtagController.sync
sync(s) ==
    IF s.err # "none" THEN s
    ELSE IF ~s.ftdi THEN Raise(s, "AssertionError")
    ELSE IF s.buff # <<>>
    THEN [write_data(s, s.buff) EXCEPT !.buff = <<>>, !.cuts = <<>>,
                                       !.tap = tap_run(@, s.buff, s.cuts)]
    ELSE s

\* the test of _stack_cmd with >= in the place of >
overflows_at_limit(buff, cmd) == Len(buff) + Len(cmd) >= MaxBuff

\* the test of _stack_cmd: the buffer cannot take cmd as well
overflows(buff, cmd) == Len(buff) + Len(cmd) > MaxBuff

\* JtagController._stack_cmd
_stack_cmd(s, cmd) ==
    IF s.err # "none" THEN s
    ELSE LET s1 == IF overflows(s.buff, cmd) THEN sync(s) ELSE s
         IN  IF s1.err # "none" THEN s1
             ELSE [s1 EXCEPT !.buff = @ \o cmd, !.frames = Append(@, cmd),
                             !.cuts = Append(@, Len(cmd))]

\* JtagController._write_bits
_write_bits(s, out, masks) ==
    IF s.err # "none" THEN s
    ELSE IF Len(out) > 8 THEN Raise(s, "BitSequenceError")
    ELSE LET cmd == pack_BBB(WRITE_BITS_NVE_LSB, length_field(Len(out)),
                              tobyte(out), masks)
         IN  IF cmd.raised THEN Raise(s, "struct.error")
             ELSE _stack_cmd(s, cmd.bytes)

\* JtagController._write_bytes
_write_bytes(s, out, masks) ==
    IF s.err # "none" THEN s
    ELSE LET bytes == tobytes(out)
             cmd == pack_BHnB(WRITE_BYTES_NVE_LSB, length_field(Len(bytes)),
                              bytes, masks)
         IN  IF cmd.raised THEN Raise(s, "struct.error")
             ELSE _stack_cmd(s, cmd.bytes)

\* the TDI bit write_tms puts into the payload: "if self._last: out[7] = 1"
tms_payload(out, carry) == IF carry # 0 THEN setitem(out, 7, 1) ELSE out

\* write_tms without its "self._last = 0"
tms_last_kept(carry) == carry

\* the value write_tms leaves in self._last
tms_last(carry) == 0

\* JtagController.write_tms
write_tms(s, out, masks) ==
    IF s.err # "none" THEN s
    ELSE LET length == Len(out)
             out1 == tms_payload(out, s.last)
             s1 == [s EXCEPT !.last = IF s.last # 0 THEN tms_last(s.last) ELSE @,
                             !.written = FALSE, !.tms_called = TRUE]
         IN  IF Len(out1) > 8 THEN Raise(s1, "BitSequenceError")
             ELSE LET cmd == pack_BBB(WRITE_BITS_TMS_NVE, length_field(length),
                                      tobyte(out1), masks)
                  IN  IF cmd.raised THEN Raise(s1, "struct.error")
                      ELSE _stack_cmd(s1, cmd.bytes)

\* the length test with >= in the place of >
exceeds_or_reaches(length, limit) == length >= limit

\* the "length > 8" of read_bits, the "length > 512" of read_bytes
exceeds(length, limit) == length > limit

\* JtagController.read_bits
read_bits(s, length, masks, tdo) ==
    IF s.err # "none" THEN s
    ELSE IF ~s.ftdi THEN Raise(s, "AssertionError")
    ELSE IF exceeds(length, MaxReadBits) THEN Raise(s, "AssertionError")
    ELSE LET cmd == pack_BB(READ_BITS_NVE_LSB, length_field(length), masks)
         IN  IF cmd.raised THEN Raise(s, "struct.error")
             ELSE LET s1 == sync(_stack_cmd(s, cmd.bytes))
                  IN  IF s1.err # "none" THEN s1
                      ELSE [read_data(s1, 1, tdo) EXCEPT
                                !.ret = RetSeq(<<>>, IntBits(tdo, length))]

\* JtagController.read_bytes
read_bytes(s, length, masks, tdo) ==
    IF s.err # "none" THEN s
    ELSE IF ~s.ftdi THEN Raise(s, "AssertionError")
    ELSE IF exceeds(length, MaxReadBytes) THEN Raise(s, "AssertionError")
    ELSE LET cmd == pack_BH(READ_BYTES_NVE_LSB, length_field(length), masks)
         IN  IF cmd.raised THEN Raise(s, "struct.error")
             ELSE LET s1 == sync(_stack_cmd(s, cmd.bytes))
                  IN  IF s1.err # "none" THEN s1
                      ELSE [read_data(s1, length, tdo) EXCEPT
                                !.ret = RetSeq([i \in 1..length |-> tdo], <<>>)]

\* JtagController.read_write_bytes (out: a string of bytes); the data read
\* are dropped, the method returns nothing
read_write_bytes(s, out, masks, tdo) ==
    IF s.err # "none" THEN s
    ELSE IF ~s.ftdi THEN Raise(s, "AssertionError")
    ELSE LET length == Len(out)
             cmd == pack_BH(RW_BYTES_NVE_LSB, length_field(length), masks)
         IN  IF cmd.raised THEN Raise(s, "struct.error")
             ELSE LET s1 == sync(_stack_cmd(s, cmd.bytes \o out))
                  IN  IF s1.err # "none" THEN s1
                      ELSE read_data(s1, length, tdo)

\* JtagController.read
read(s, length, masks, tdo) ==
    LET byte_count == length \div 8
        bit_count == length - 8 * byte_count
        s1 == IF byte_count # 0 THEN read_bytes(s, byte_count, masks, tdo)
              ELSE s
        s2 == IF bit_count # 0 THEN read_bits(s1, bit_count, masks, tdo)
              ELSE s1
    IN  IF s2.err # "none" THEN s2
        ELSE [s2 EXCEPT !.ret =
                 RetSeq(IF byte_count # 0 THEN s1.ret.bytes ELSE <<>>,
                        IF bit_count # 0 THEN s2.ret.bits ELSE <<>>)]

\* write sending all of out as data: out[:] in the place of out[:-1]
write_head_whole(out) == out

\* the (out, self._last) = (out[:-1], int(out[-1])) of write: the bits sent
\* as data and the bit kept back
write_head(out) == SubSeq(out, 1, Len(out) - 1)
write_carry(out) == out[Len(out)]

\* JtagController.write
write(s, out, masks) ==
    IF s.err # "none" THEN s
    ELSE IF out = <<>> THEN Raise(s, "IndexError")
    ELSE LET body == write_head(out)
             s1 == [s EXCEPT !.last = write_carry(out), !.written = TRUE]
             byte_count == Len(body) \div 8
             pos == 8 * byte_count
             bit_count == Len(body) - pos
             s2 == IF byte_count # 0
                   THEN _write_bytes(s1, SubSeq(body, 1, pos), masks) ELSE s1
         IN  IF bit_count # 0
             THEN _write_bits(s2, SubSeq(body, pos + 1, Len(body)), masks)
             ELSE s2

\* JtagController.reset.  "value = TRST_BIT" names a class attribute without
\* its class: Python raises NameError there, after the first pin command has
\* been written, so the rest of the method never runs.
ctrl_reset(s, masks) ==
    IF s.err # "none" THEN s
    ELSE IF ~s.ftdi THEN Raise(s, "AssertionError")
    ELSE LET cmd == pack_BBB(SET_BITS_LOW, 0, direction, masks)
         IN  Raise(write_data(s, cmd.bytes), "NameError")

\* JtagController.terminate
terminate(s) == IF s.ftdi THEN [s EXCEPT !.ftdi = FALSE] ELSE s

(***************************************************************************)
(* JtagEngine.                                                             *)
(***************************************************************************)
\* JtagEngine.change_state
change_state(s, statename, masks) ==
    IF s.err # "none" THEN s
    ELSE LET path == find_path(statename, s.current)
             ev == get_events(path)
         IN  IF ev.raised THEN Raise(s, "AssertionError")
             ELSE LET s1 == write_tms(s, ev.events, masks)
                  IN  IF s1.err # "none" THEN s1
                      ELSE [s1 EXCEPT !.current = handle_events(@, ev.events)]

\* JtagEngine.go_idle
go_idle(s, masks) == change_state(s, "run_test_idle", masks)

\* JtagEngine.write_ir
write_ir(s, instruction, masks) ==
    change_state(write(change_state(s, "shift_ir", masks), instruction, masks),
                 "update_ir", masks)

\* JtagEngine.write_dr
write_dr(s, data, masks) ==
    change_state(write(change_state(s, "shift_dr", masks), data, masks),
                 "update_dr", masks)

\* JtagEngine.read_dr
read_dr(s, length, masks, tdo) ==
    change_state(read(change_state(s, "shift_dr", masks), length, masks, tdo),
                 "update_dr", masks)

\* JtagEngine.idcode
idcode(s, masks, tdo) ==
    LET s1 == go_idle(read_dr(s, 32, masks, tdo), masks)
    IN  IF s1.err # "none" THEN s1
        ELSE [s1 EXCEPT !.ret =
                 [bytes |-> <<>>, bits |-> <<>>,
                  value |-> BitsInt(BytesBits(@.bytes) \o @.bits)]]

\* JtagEngine.preload (instruction: what bsdl.get_jtag_ir gives)
preload(s, instruction, data, masks) ==
    go_idle(write_dr(write_ir(s, instruction, masks), data, masks), masks)

\* JtagEngine.sample (length: what bsdl.get_boundary_length gives)
sample(s, instruction, length, masks, tdo) ==
    go_idle(read_dr(write_ir(s, instruction, masks), length, masks, tdo),
            masks)

\* JtagEngine.extest
extest(s, instruction, masks) == write_ir(s, instruction, masks)

\* JtagEngine.readback
readback(s, length, masks, tdo) ==
    go_idle(read_dr(s, length, masks, tdo), masks)

\* JtagEngine.reset: self._ctrl.reset() then self._sm.reset()
engine_reset(s, masks) ==
    LET s1 == ctrl_reset(s, masks)
    IN  IF s1.err # "none" THEN s1
        ELSE [s1 EXCEPT !.current = "test_logic_reset"]

(***************************************************************************)
(* State.                                                                  *)
(***************************************************************************)
VARIABLES
    current,     \* JtagStateMachine._current
    last,        \* JtagController._last
    write_buff,  \* JtagController._write_buff
    ftdi,        \* JtagController.ftdi is set (TRUE) or None (FALSE)
    written,     \* a write was called and no write_tms since
    tms_called,  \* write_tms was called since construction
    call,        \* the last public operation and its arguments
    pre,         \* the session as that operation found it
    err,         \* the exception it raised, "none" if it returned
    frames,      \* the commands it appended to the buffer, in order
    xfers,       \* the transport calls it made, in order
    ret,         \* what it returned
    cuts,        \* the lengths of the commands in the buffer
    tap,         \* the state of the remote TAP
    nops,        \* number of operations issued so far
    sm_pc,       \* JtagStateMachine used alone: the last method called
    sm_source,   \*   the source of the last find_path
    sm_target,   \*   its target
    sm_path,     \*   the path it returned
    sm_events,   \*   what get_events made of that path
    sm_start     \*   the current state when handle_events was called

engine_vars == << last, write_buff, ftdi, written, tms_called, call, pre, err, frames,
                  xfers, ret, cuts, tap, nops >>
sm_vars == << sm_pc, sm_source, sm_target, sm_path, sm_events, sm_start >>
vars == << current, last, write_buff, ftdi, written, tms_called, call, pre, err, frames,
           xfers, ret, cuts, tap, nops, sm_pc, sm_source, sm_target, sm_path, sm_events,
           sm_start >>

\* pre before the first operation
NoPre ==
    [ current |-> "test_logic_reset", last |-> 1, buff |-> <<>>,
      ftdi |-> TRUE, written |-> FALSE, tms_called |-> FALSE,
      call |-> [op |-> "none", tail |-> -1], err |-> "none" ]

\* the session an operation starts from
Session ==
    [ current |-> current, last |-> last, buff |-> write_buff, ftdi |-> ftdi,
      written |-> written, tms_called |-> tms_called, err |-> "none",
      frames |-> <<>>, xfers |-> <<>>, ret |-> NoRet, cuts |-> cuts,
      tap |-> tap ]

\* JtagEngine.__init__ (JtagController.__init__, JtagStateMachine.__init__)
\* followed by configure(): _current = test_logic_reset, _last = 1,
\* _write_buff = '', ftdi open
Init ==
    /\ current = "test_logic_reset"
    /\ last = 1
    /\ write_buff = <<>>
    /\ ftdi = TRUE
    /\ written = FALSE
    /\ tms_called = FALSE
    /\ call = [op |-> "init"]
    /\ pre = NoPre
    /\ err = "none"
    /\ frames = <<>>
    /\ xfers = <<>>
    /\ ret = NoRet
    /\ cuts = <<>>
    /\ tap = "test_logic_reset"
    /\ nops = 0
    /\ sm_pc = "new"
    /\ sm_source = "test_logic_reset"
    /\ sm_target = "test_logic_reset"
    /\ sm_path = <<>>
    /\ sm_events = [raised |-> FALSE, events |-> <<>>]
    /\ sm_start = "test_logic_reset"

(***************************************************************************)
(* Arguments of the operations.                                            *)
(***************************************************************************)
\* all bit sequences of 1..MaxBits bits
SmallBits == UNION { [1..n -> Bit] : n \in 1..MaxBits }
\* 1,0,1,0,... (the 101010101 of the deferred-bit test) and 1,0,0,1,0,0,...
Alt(n) == [ i \in 1..n |-> i % 2 ]
Tri(n) == [ i \in 1..n |-> IF i % 3 = 1 THEN 1 ELSE 0 ]
\* n bits, all of them b
Fill(n, b) == [ i \in 1..n |-> b ]
\* lengths whose write-bytes command leaves room for exactly one 3-byte
\* command, fills the buffer exactly, and is one byte too long for it (the
\* command is 3 + (n-1)/8 bytes)
NearFull == 8 * (MaxBuff - 6) + 1
Full == 8 * (MaxBuff - 3) + 1
OverFull == 8 * (MaxBuff - 2) + 1
WriteInputs ==
    SmallBits \cup { Tri(8), Alt(9), Tri(10), Tri(17) }
              \cup { Fill(NearFull, 0), Fill(Full, 1), Fill(OverFull, 0) }
RegInputs == { <<0>>, <<1>>, <<1, 0>>, Tri(10) }
TmsInputs ==
    { <<>>, <<1>>, <<0, 1>>, <<1, 1, 1, 1, 1>>, <<1, 1, 1, 1, 0, 1, 0, 1>>,
      <<0, 0, 0, 0, 0, 0, 0, 0>> }
ReadLens == { 1, 9 }
\* read_bits / read_bytes called on the controller: at and past the limits
ReadBitsLens == { 1, MaxReadBits, MaxReadBits + 1 }
ReadBytesLens == { 1, MaxReadBytes, MaxReadBytes + 1 }
\* the byte strings given to read_write_bytes
RwInputs == { <<>>, << 165 >>, << 1, 2 >> }
\* the value of every byte the device answers
TdoBytes == { 0, 37 }
\* what bsdl.get_jtag_ir(...) gives, and the data of preload
IrInputs == { << 1 >>, << 0, 1, 0 >> }
PreloadInputs == { << 1 >>, Tri(10) }

(***************************************************************************)
(* The public operations on one session.                                   *)
(***************************************************************************)
\* what pre keeps of the operation before: its name and, for an operation
\* that takes bits, the last bit of its argument (-1 otherwise)
Before(c) ==
    [ op |-> c.op,
      tail |-> IF c.op \in {"write", "write_ir", "write_dr"}
               THEN c.bits[Len(c.bits)] ELSE -1 ]

\* the operation c took the session to r
Finished(c, r) ==
    /\ nops' = nops + 1
    /\ call' = c
    /\ pre' = [current |-> current, last |-> last, buff |-> write_buff,
               ftdi |-> ftdi, written |-> written,
               tms_called |-> tms_called, call |-> Before(call),
               err |-> err]
    /\ current' = r.current
    /\ last' = r.last
    /\ write_buff' = r.buff
    /\ ftdi' = r.ftdi
    /\ written' = r.written
    /\ tms_called' = r.tms_called
    /\ err' = r.err
    /\ frames' = r.frames
    /\ xfers' = r.xfers
    /\ ret' = IF r.err = "none" THEN r.ret ELSE NoRet
    /\ cuts' = r.cuts
    /\ tap' = r.tap
    /\ UNCHANGED sm_vars

\* the operation c took the session to end
Done(c, end) ==
    /\ nops < MaxOps
    /\ \E r \in {end} : Finished(c, r)

ChangeState ==
    \E statename \in States, masks \in BOOLEAN :
        Done([op |-> "change_state", statename |-> statename],
             change_state(Session, statename, masks))

GoIdle ==
    \E masks \in BOOLEAN :
        Done([op |-> "go_idle"], go_idle(Session, masks))

WriteIr ==
    \E bits \in RegInputs, masks \in BOOLEAN :
        Done([op |-> "write_ir", bits |-> bits], write_ir(Session, bits, masks))

WriteDr ==
    \E bits \in RegInputs, masks \in BOOLEAN :
        Done([op |-> "write_dr", bits |-> bits], write_dr(Session, bits, masks))

ReadDr ==
    \E length \in ReadLens, masks \in BOOLEAN, tdo \in TdoBytes :
        Done([op |-> "read_dr", length |-> length],
             read_dr(Session, length, masks, tdo))

Idcode ==
    \E masks \in BOOLEAN, tdo \in TdoBytes :
        Done([op |-> "idcode"], idcode(Session, masks, tdo))

Preload ==
    \E instruction \in IrInputs, data \in PreloadInputs, masks \in BOOLEAN :
        Done([op |-> "preload", instruction |-> instruction, data |-> data],
             preload(Session, instruction, data, masks))

Sample ==
    \E instruction \in IrInputs, length \in ReadLens, masks \in BOOLEAN,
       tdo \in TdoBytes :
        Done([op |-> "sample", instruction |-> instruction, length |-> length],
             sample(Session, instruction, length, masks, tdo))

Extest ==
    \E instruction \in IrInputs, masks \in BOOLEAN :
        Done([op |-> "extest", instruction |-> instruction],
             extest(Session, instruction, masks))

Readback ==
    \E length \in ReadLens, masks \in BOOLEAN, tdo \in TdoBytes :
        Done([op |-> "readback", length |-> length],
             readback(Session, length, masks, tdo))

\* JtagEngine.write
Write ==
    \E bits \in WriteInputs, masks \in BOOLEAN :
        Done([op |-> "write", bits |-> bits], write(Session, bits, masks))

\* JtagEngine.read
Read ==
    \E length \in ReadLens, masks \in BOOLEAN, tdo \in TdoBytes :
        Done([op |-> "read", length |-> length],
             read(Session, length, masks, tdo))

\* JtagController.read_bits called on the controller
ReadBits ==
    \E length \in ReadBitsLens, masks \in BOOLEAN, tdo \in TdoBytes :
        Done([op |-> "read_bits", length |-> length],
             read_bits(Session, length, masks, tdo))

\* JtagController.read_bytes called on the controller
ReadBytes ==
    \E length \in ReadBytesLens, masks \in BOOLEAN, tdo \in TdoBytes :
        Done([op |-> "read_bytes", length |-> length],
             read_bytes(Session, length, masks, tdo))

\* JtagController.read_write_bytes called on the controller
ReadWriteBytes ==
    \E out \in RwInputs, masks \in BOOLEAN, tdo \in TdoBytes :
        Done([op |-> "read_write_bytes", out |-> out],
             read_write_bytes(Session, out, masks, tdo))

\* JtagController.write_tms called on the controller
WriteTms ==
    \E events \in TmsInputs, masks \in BOOLEAN :
        Done([op |-> "write_tms", events |-> events],
             write_tms(Session, events, masks))

\* JtagEngine.reset
Reset ==
    \E masks \in BOOLEAN :
        Done([op |-> "reset"], engine_reset(Session, masks))

\* JtagEngine.sync
Sync == Done([op |-> "sync"], sync(Session))

\* JtagEngine.terminate
Terminate == Done([op |-> "terminate"], terminate(Session))

\* the operations of the engine and of its controller, one at a time; the
\* facility operations, made of these, are driven under SpecEngine
Next ==
    \/ ChangeState
    \/ GoIdle
    \/ WriteIr
    \/ WriteDr
    \/ ReadDr
    \/ Write
    \/ Read
    \/ WriteTms
    \/ Reset
    \/ Sync
    \/ Terminate
    \/ ReadBits
    \/ ReadBytes
    \/ ReadWriteBytes

Spec == Init /\ [][Next]_vars

\* the engine driven through change_state, go_idle, write_ir, write_dr,
\* read_dr, the facility operations and sync only
NextEngine ==
    \/ ChangeState
    \/ GoIdle
    \/ WriteIr
    \/ WriteDr
    \/ ReadDr
    \/ Idcode
    \/ Preload
    \/ Sample
    \/ Extest
    \/ Readback
    \/ Sync

SpecEngine == Init /\ [][NextEngine]_vars

(***************************************************************************)
(* JtagStateMachine used alone: find_path, get_events, handle_events, from *)
(* any state the pointer can be in.                                        *)
(***************************************************************************)
InitSm ==
    /\ current \in States
    /\ last = 1
    /\ write_buff = <<>>
    /\ ftdi = TRUE
    /\ written = FALSE
    /\ tms_called = FALSE
    /\ call = [op |-> "init"]
    /\ pre = NoPre
    /\ err = "none"
    /\ frames = <<>>
    /\ xfers = <<>>
    /\ ret = NoRet
    /\ cuts = <<>>
    /\ tap = "test_logic_reset"
    /\ nops = 0
    /\ sm_pc = "new"
    /\ sm_source = "test_logic_reset"
    /\ sm_target = "test_logic_reset"
    /\ sm_path = <<>>
    /\ sm_events = [raised |-> FALSE, events |-> <<>>]
    /\ sm_start = "test_logic_reset"

\* find_path(target, source)
SmFindPath ==
    \E source \in States, target \in States :
        /\ sm_pc = "new"
        /\ sm_pc' = "find_path"
        /\ sm_source' = source
        /\ sm_target' = target
        /\ sm_path' = find_path(target, source)
        /\ UNCHANGED << current, sm_events, sm_start, engine_vars >>

\* find_path(target): "if source is None: source = self.state()"
SmFindPathHere ==
    \E target \in States :
        /\ sm_pc = "new"
        /\ sm_pc' = "find_path"
        /\ sm_source' = current
        /\ sm_target' = target
        /\ sm_path' = find_path(target, current)
        /\ UNCHANGED << current, sm_events, sm_start, engine_vars >>

\* get_events(path) on the path just found
SmGetEvents ==
    /\ sm_pc = "find_path"
    /\ sm_pc' = "get_events"
    /\ sm_events' = get_events(sm_path)
    /\ UNCHANGED << current, sm_source, sm_target, sm_path, sm_start,
                    engine_vars >>

\* handle_events(events) on the events just derived
SmHandleEvents ==
    /\ sm_pc = "get_events"
    /\ ~sm_events.raised
    /\ sm_pc' = "handle_events"
    /\ sm_start' = current
    /\ current' = handle_events(current, sm_events.events)
    /\ UNCHANGED << sm_source, sm_target, sm_path, sm_events, engine_vars >>

\* handle_events(BitSequence('1' * n)), five TMS=1 events or more, from any
\* state
SmHandleOnes ==
    /\ sm_pc = "new"
    /\ \E n \in {5, 6, 7} :
           /\ sm_events' = [raised |-> FALSE, events |-> [i \in 1..n |-> 1]]
           /\ current' = handle_events(current, [i \in 1..n |-> 1])
    /\ sm_pc' = "ones"
    /\ sm_start' = current
    /\ UNCHANGED << sm_source, sm_target, sm_path, engine_vars >>

NextSm ==
    \/ SmFindPath
    \/ SmFindPathHere
    \/ SmGetEvents
    \/ SmHandleEvents
    \/ SmHandleOnes

SpecSm == InitSm /\ [][NextSm]_vars

(***************************************************************************)
(* Properties of the state machine (checked under SpecSm).                 *)
(***************************************************************************)
\* a find_path call has returned sm_path for (sm_source, sm_target)
PathFound == sm_pc \in {"find_path", "get_events", "handle_events"}

\* d is one of the two exits of s
IsExit(s, d) == d = exits[s][1] \/ d = exits[s][2]

\* C1: for every ordered pair (A, B) of the 16 states, find_path(B, source=A)
\* returns a non-empty list that starts at A, ends at B, steps along exits
\* only, holds no state twice, and is exactly [A] when A = B.
C1_FindPathIsSimplePath ==
    PathFound =>
        /\ Len(sm_path) >= 1
        /\ sm_path[1] = sm_source
        /\ sm_path[Len(sm_path)] = sm_target
        /\ \A i \in 1..(Len(sm_path) - 1) : IsExit(sm_path[i], sm_path[i + 1])
        /\ \A i, j \in 1..Len(sm_path) : i # j => sm_path[i] # sm_path[j]
        /\ (sm_source = sm_target => sm_path = << sm_source >>)

\* find_path has answered for the farthest pair: shift_dr to exit_2_ir
C1_Witness ==
    /\ sm_pc = "find_path"
    /\ sm_source = "shift_dr"
    /\ sm_target = "exit_2_ir"
    /\ Len(sm_path) = 9

\* the states reached from the states of S in at most one clock, whatever TMS
Step(S) == S \cup { exits[s][1] : s \in S } \cup { exits[s][2] : s \in S }

RECURSIVE Within(_, _)
Within(a, k) == IF k = 0 THEN {a} ELSE Step(Within(a, k - 1))

\* the breadth-first distance from a to b in the transition graph
Distance ==
    [ a \in States |->
        [ b \in States |->
            CHOOSE k \in 0..Cardinality(States) :
                /\ b \in Within(a, k)
                /\ k > 0 => b \notin Within(a, k - 1) ] ]

\* C2: the number of edges of the path find_path returns is the breadth-first
\* distance from the source to the target: no state sequence along the
\* exits, with or without repeated states, is shorter.
C2_FindPathIsShortest ==
    PathFound => Len(sm_path) - 1 = Distance[sm_source][sm_target]

\* find_path has answered for a pair with candidates of several lengths:
\* exit_1_dr reaches shift_dr through pause_dr or around through update_dr
C2_Witness ==
    /\ sm_pc = "find_path"
    /\ sm_source = "exit_1_dr"
    /\ sm_target = "shift_dr"
    /\ sm_path = << "exit_1_dr", "pause_dr", "exit_2_dr", "shift_dr" >>

\* C3: for all 256 (source, target) pairs, source = target included,
\* get_events(find_path(target, source)) raises no "Invalid path" and returns
\* exactly len(path) - 1 events, and handle_events replaying them from a
\* current state equal to source leaves the current state at target.
C3_EventsReplayToTarget ==
    /\ sm_pc \in {"get_events", "handle_events"} =>
           /\ ~sm_events.raised
           /\ Len(sm_events.events) = Len(sm_path) - 1
    /\ (sm_pc = "handle_events" /\ sm_start = sm_source) =>
           current = sm_target

\* the events of the farthest pair have been replayed from its source
C3_Witness ==
    /\ sm_pc = "handle_events"
    /\ sm_source = "shift_dr"
    /\ sm_start = "shift_dr"
    /\ sm_target = "exit_2_ir"
    /\ sm_events.events = << 1, 1, 1, 1, 0, 1, 0, 1 >>
    /\ current = "exit_2_ir"

(***************************************************************************)
(* Properties of the controller and the engine (checked under Spec).       *)
(***************************************************************************)
\* bit k (0 = least significant) of a byte
BitOf(byte, k) == (byte \div (2 ^ k)) % 2

\* f is a write-TMS command
IsTms(f) == Len(f) = 3 /\ f[1] = WRITE_BITS_TMS_NVE

\* f is a write-TMS command carrying exactly the given events: its length
\* field is their number minus 1 and its payload holds event i in bit i
TmsCarries(f, events) ==
    /\ IsTms(f)
    /\ f[2] = Len(events) - 1
    /\ \A i \in 1..Len(events) : BitOf(f[3], i - 1) = events[i]

\* the events change_state derives for going from one state to another
PathEvents(from, to) == get_events(find_path(to, from)).events

\* the state an operation asks change_state for first
FirstTarget ==
    CASE call.op = "change_state" -> call.statename
      [] call.op = "go_idle" -> "run_test_idle"
      [] call.op = "write_ir" -> "shift_ir"
      [] call.op \in {"write_dr", "read_dr"} -> "shift_dr"

\* C4: for every current state and every target name, a target equal to the
\* current state included, change_state(name) on a live session completes
\* without error, appends exactly one write-TMS frame carrying the events of
\* the computed path, and leaves the state pointer at the named state.
C4_ChangeStateCompletes ==
    (call.op \in {"change_state", "go_idle"} /\ pre.ftdi) =>
        /\ err = "none"
        /\ Len(frames) = 1
        /\ TmsCarries(frames[1], PathEvents(pre.current, FirstTarget))
        /\ current = FirstTarget

\* C5: write(bits) immediately followed by write_tms(events), for every
\* non-empty bits and every event sequence, queues a write-TMS frame whose
\* payload bit 7 is the last bit of bits, and the carry is cleared afterwards.
C5_CarryReachesTmsFrame ==
    (call.op = "write_tms" /\ pre.call.op = "write" /\ pre.err = "none") =>
        /\ Len(frames) = 1
        /\ IsTms(frames[1])
        /\ BitOf(frames[1][3], 7) = pre.call.tail
        /\ last = 0

\* the operation begins with a write_tms call, whose events are TmsEvents
BeginsWithTms ==
    call.op \in {"write_tms", "change_state", "go_idle", "write_ir",
                 "write_dr", "read_dr"}
TmsEvents ==
    IF call.op = "write_tms" THEN call.events
    ELSE PathEvents(pre.current, FirstTarget)

\* C6 as stated: whenever write_tms is called with no write call since
\* construction or since the previous write_tms, payload bit 7 of the queued
\* write-TMS frame is 1 (looked at for sequences of 1 to 7 events only, where
\* bit 7 is no event).
C6_TopBitDefaultsToOne ==
    (BeginsWithTms /\ ~pre.written /\ frames # <<>>
                   /\ Len(TmsEvents) \in 1..7) =>
        BitOf(frames[1][3], 7) = 1

\* C6 as amended: with no write call since construction or since the
\* previous write_tms, payload bit 7 of the queued write-TMS frame is 1 for
\* the first write_tms after construction only; every later one finds the
\* carry at 0 and queues bit 7 = 0 (an 8th event, if any, sits in bit 7).
C6_TopBitIsOneOnlyAtFirst ==
    (BeginsWithTms /\ ~pre.written /\ frames # <<>>) =>
        BitOf(frames[1][3], 7) =
            IF ~pre.tms_called THEN 1
            ELSE IF Len(TmsEvents) >= 8 THEN TmsEvents[8] ELSE 0

\* the second of two consecutive change_state calls has queued bit 7 = 0
C6_Witness ==
    /\ call.op = "change_state"
    /\ pre.call.op = "change_state"
    /\ ~pre.written
    /\ pre.tms_called
    /\ err = "none"
    /\ Len(TmsEvents) \in 1..7
    /\ Len(frames) = 1
    /\ BitOf(frames[1][3], 7) = 0

\* f is a write-bytes or a write-bits command
IsData(f) == f[1] \in {WRITE_BYTES_NVE_LSB, WRITE_BITS_NVE_LSB}

\* the bits a data command shifts out, in order: all bits of every payload
\* byte of a write-bytes command, the first length+1 bits of the payload of
\* a write-bits command
FrameBits(f) ==
    IF f[1] = WRITE_BYTES_NVE_LSB
    THEN [ i \in 1..(8 * (Len(f) - 3)) |->
             BitOf(f[4 + ((i - 1) \div 8)], (i - 1) % 8) ]
    ELSE [ i \in 1..(f[2] + 1) |-> BitOf(f[3], i - 1) ]

\* the bits shifted out by the commands fs[i..j]
RECURSIVE BitsOfFrames(_, _, _)
BitsOfFrames(fs, i, j) ==
    IF i > j THEN <<>> ELSE FrameBits(fs[i]) \o BitsOfFrames(fs, i + 1, j)

\* the shift and the update state of write_ir / write_dr
ShiftState == IF call.op = "write_ir" THEN "shift_ir" ELSE "shift_dr"
UpdateState == IF call.op = "write_ir" THEN "update_ir" ELSE "update_dr"

\* C7: write_ir(bits) (write_dr(bits)), bits of length n >= 1, started in any
\* state but the shift state itself queues, in this order, one write-TMS
\* frame reaching shift_ir (shift_dr), data frames carrying exactly
\* bits[0..n-2], and one write-TMS frame with the two events shift -> exit_1
\* -> update whose payload bit 7 is bits[n-1]; the state ends at update_ir
\* (update_dr).  On a live session the call does not fail.
C7_RegisterWriteFrames ==
    (call.op \in {"write_ir", "write_dr"} /\ pre.current # ShiftState) =>
        /\ pre.ftdi => err = "none"
        /\ err = "none" =>
            LET n == Len(call.bits)
                k == Len(frames)
            IN  /\ k >= 2
                /\ TmsCarries(frames[1], PathEvents(pre.current, ShiftState))
                /\ \A i \in 2..(k - 1) : IsData(frames[i])
                /\ BitsOfFrames(frames, 2, k - 1) = SubSeq(call.bits, 1, n - 1)
                /\ frames[k] = << WRITE_BITS_TMS_NVE, 1,
                                  3 + 128 * call.bits[n] >>
                /\ current = UpdateState

\* write_ir of ten bits from pause_dr: a TMS frame, a byte frame, a bit frame
\* and the closing TMS frame
C7_Witness ==
    /\ call.op = "write_ir"
    /\ call.bits = Tri(10)
    /\ pre.current = "pause_dr"
    /\ err = "none"
    /\ Len(frames) = 4
    /\ current = "update_ir"

\* C8: write(bits), bits of length n >= 1, keeps bits[n-1] as the carry and
\* queues no frame holding it; it queues a write-bytes frame of (n-1) div 8
\* bytes holding bits[0 .. 8*((n-1) div 8)-1] if that count is not zero, then
\* a write-bits frame of (n-1) mod 8 bits holding the remaining bits if that
\* count is not zero; nothing for n = 1.  Each length field is the unit
\* count minus 1.  On a live session the call does not fail.
C8_WriteSplitsOffLastBit ==
    call.op = "write" =>
        /\ pre.ftdi => err = "none"
        /\ err = "none" =>
            LET n == Len(call.bits)
                nbytes == (n - 1) \div 8
                nbits == (n - 1) % 8
            IN  /\ last = call.bits[n]
                /\ Len(frames) = (IF nbytes > 0 THEN 1 ELSE 0)
                                 + (IF nbits > 0 THEN 1 ELSE 0)
                /\ nbytes > 0 =>
                       /\ frames[1][1] = WRITE_BYTES_NVE_LSB
                       /\ Len(frames[1]) = 3 + nbytes
                       /\ frames[1][2] + 256 * frames[1][3] = nbytes - 1
                       /\ FrameBits(frames[1]) = SubSeq(call.bits, 1, 8 * nbytes)
                /\ nbits > 0 =>
                       LET f == frames[Len(frames)]
                       IN  /\ f[1] = WRITE_BITS_NVE_LSB
                           /\ Len(f) = 3
                           /\ f[2] = nbits - 1
                           /\ f[3] < 2 ^ nbits
                           /\ FrameBits(f) =
                                  SubSeq(call.bits, 8 * nbytes + 1, n - 1)

\* write of ten bits: one byte frame, one bit frame of one bit, carry 1
C8_Witness ==
    /\ call.op = "write"
    /\ call.bits = Tri(10)
    /\ err = "none"
    /\ Len(frames) = 2
    /\ last = 1

\* the data of the transport writes among the transport calls xs
RECURSIVE Written(_)
Written(xs) ==
    IF xs = <<>> THEN <<>>
    ELSE (IF Head(xs).kind = "write" THEN << Head(xs).data >> ELSE <<>>)
         \o Written(Tail(xs))

\* the operations that only queue commands
QueueOps ==
    {"write_tms", "change_state", "go_idle", "write", "write_ir", "write_dr",
     "preload", "extest"}

\* the operations that read from the transport
ReadOps ==
    {"read", "read_dr", "read_bits", "read_bytes", "read_write_bytes",
     "idcode", "sample", "readback"}

\* where queuing the commands fs[i..] by the stated rule leaves the buffer,
\* and the transport writes it makes on the way (the writes so far: sent).
\* always is TRUE for the rule as claimed (exactly one write at each
\* overflow), FALSE for a write only of a non-empty buffer.
RECURSIVE Queued(_, _, _, _, _)
Queued(fs, i, buff, sent, always) ==
    IF i > Len(fs) THEN [ buff |-> buff, sent |-> sent ]
    ELSE IF Len(buff) + Len(fs[i]) <= MaxBuff
    THEN Queued(fs, i + 1, buff \o fs[i], sent, always)
    ELSE Queued(fs, i + 1, fs[i],
                IF always \/ buff # <<>> THEN Append(sent, buff) ELSE sent,
                always)

\* C9 as stated: queuing a frame performs no transport write while the
\* buffered length plus the frame's length is at most 512; when it would
\* exceed 512, exactly one transport write carrying the whole previous buffer
\* happens before the frame is appended, and the buffer then holds exactly
\* the new frame.  Otherwise a transport write occurs only on sync() or a
\* read.
C9_WritesOnlyOnOverflowSyncRead ==
    /\ (call.op \in QueueOps /\ err = "none") =>
           LET q == Queued(frames, 1, pre.buff, <<>>, TRUE)
           IN  write_buff = q.buff /\ Written(xfers) = q.sent
    /\ call.op \notin (QueueOps \cup ReadOps \cup {"sync", "init"}) =>
           Written(xfers) = <<>>

\* C9 as amended: on a live, configured session queuing a frame performs no
\* transport write while the buffered length plus the frame's length is at
\* most 512; when it would exceed 512, the previous buffer content, if there
\* is any, goes to the transport in exactly one write before the frame is
\* appended, and the buffer then holds exactly the new frame.  Otherwise a
\* transport write occurs only on sync(), on a read, or in reset(), which
\* writes its pin command straight to the transport.
C9_WritesOnOverflowSyncReadReset ==
    /\ (call.op \in QueueOps /\ err = "none") =>
           LET q == Queued(frames, 1, pre.buff, <<>>, FALSE)
           IN  /\ write_buff = q.buff
               /\ Written(xfers) = q.sent
               /\ Len(xfers) = Len(q.sent)
    /\ call.op \notin (QueueOps \cup ReadOps \cup {"sync", "reset", "init"}) =>
           Written(xfers) = <<>>

\* a change_state found the buffer full: the buffer went out in one write
\* and the new frame is alone in the buffer
C9_Witness ==
    /\ call.op = "change_state"
    /\ err = "none"
    /\ Len(pre.buff) = MaxBuff
    /\ Len(xfers) = 1
    /\ xfers[1].kind = "write"
    /\ xfers[1].data = pre.buff
    /\ Len(frames) = 1
    /\ write_buff = frames[1]

\* C10: in every reachable state the output buffer holds at most 512 bytes;
\* no single frame larger than 512 bytes is ever placed in it.
C10_BufferWithinLimit == Len(write_buff) <= MaxBuff

(***************************************************************************)
(* Reads, limits, facility operations, reset, teardown.                    *)
(***************************************************************************)
\* the concatenation of the byte strings of a sequence
RECURSIVE Concat(_)
Concat(seqs) ==
    IF seqs = <<>> THEN <<>> ELSE Head(seqs) \o Concat(Tail(seqs))

\* the reads of the controller: read_bits, read_bytes, read_write_bytes and
\* read, which is made of the first two
ControllerReads == {"read_bits", "read_bytes", "read_write_bytes", "read"}

\* C11: at the moment of every transport read issued by read_bits,
\* read_bytes or read_write_bytes (called directly or inside another
\* operation) the output buffer is empty; every frame queued before the
\* read, the read command included, has already been handed to the
\* transport, and the buffer is still empty when the read operation returns.
C11_BufferEmptyAtRead ==
    /\ \A i \in 1..Len(xfers) :
           xfers[i].kind = "read" => xfers[i].buffered = <<>>
    /\ (call.op \in ControllerReads /\ err = "none") =>
           /\ write_buff = <<>>
           /\ xfers # <<>>
           /\ xfers[Len(xfers)].kind = "read"
           /\ Concat(Written(xfers)) = pre.buff \o Concat(frames)

\* read_bits found commands waiting: they went out together with the read
\* command in one write, before the read
C11_Witness ==
    /\ call.op = "read_bits"
    /\ err = "none"
    /\ pre.buff # <<>>
    /\ Len(xfers) = 2
    /\ xfers[1].kind = "write"
    /\ xfers[1].data = pre.buff \o frames[1]
    /\ xfers[2].kind = "read"
    /\ write_buff = <<>>

\* the operation is a read_bits / read_bytes called on the controller, and
\* the limit of that operation
LimitedRead == call.op \in {"read_bits", "read_bytes"}
ReadLimit == IF call.op = "read_bits" THEN MaxReadBits ELSE MaxReadBytes

\* C12: read_bits(n) with n > 8 and read_bytes(n) with n > 512 fail with an
\* assertion-class error, and on that failure nothing has been appended to
\* the output buffer, no transport write or read has been performed, and the
\* carry is unchanged; read_bits(8) and read_bytes(512) are accepted (on a
\* live session: they return, having read 1 byte and 512 bytes).
C12_ReadLimits ==
    /\ (LimitedRead /\ call.length > ReadLimit) =>
           /\ err = "AssertionError"
           /\ frames = <<>>
           /\ write_buff = pre.buff
           /\ xfers = <<>>
           /\ last = pre.last
    /\ (LimitedRead /\ call.length = ReadLimit /\ pre.ftdi) =>
           /\ err = "none"
           /\ Len(frames) = 1
           /\ xfers[Len(xfers)].kind = "read"
           /\ xfers[Len(xfers)].n =
                  (IF call.op = "read_bits" THEN 1 ELSE MaxReadBytes)

\* read_bytes(513) on a live session with commands waiting and the carry
\* set: refused, everything as it was
C12_Witness ==
    /\ call.op = "read_bytes"
    /\ call.length = MaxReadBytes + 1
    /\ pre.ftdi
    /\ pre.buff # <<>>
    /\ pre.last = 1
    /\ err = "AssertionError"
    /\ write_buff = pre.buff
    /\ last = 1

\* the bytes the transport returned to the operation, in order
RECURSIVE ReadData(_)
ReadData(xs) ==
    IF xs = <<>> THEN <<>>
    ELSE (IF Head(xs).kind = "read" THEN Head(xs).data ELSE <<>>)
         \o ReadData(Tail(xs))

\* C13: called in any logical state the engine can be in after a sequence of
\* public operations, idcode() returns the integer value of the 32 bits
\* obtained by read_dr(32) and leaves the logical state at run_test_idle;
\* preload, sample and readback likewise end at run_test_idle (on a live
\* session, the operation returning without error).
C13_FacilitiesEndIdle ==
    (call.op \in {"idcode", "preload", "sample", "readback"} /\ pre.ftdi) =>
        /\ err = "none"
        /\ current = "run_test_idle"
        /\ call.op = "idcode" =>
               /\ Len(ReadData(xfers)) = 4
               /\ ret.value = BitsInt(BytesBits(ReadData(xfers)))

\* C14: on a live session JtagEngine.reset() performs the two
\* hardware-reset pin writes, then issues a write-TMS frame of five TMS=1
\* events, and then sets the logical state pointer to test_logic_reset;
\* after reset() returns, the pointer is test_logic_reset whatever the state
\* was before.
C14_ResetReachesTestLogicReset ==
    (call.op = "reset" /\ pre.ftdi) =>
        /\ err = "none"
        /\ Len(Written(xfers)) >= 2
        /\ \A i \in 1..2 : /\ Len(Written(xfers)[i]) = 3
                           /\ Written(xfers)[i][1] = SET_BITS_LOW
        /\ Len(frames) = 1
        /\ TmsCarries(frames[1], << 1, 1, 1, 1, 1 >>)
        /\ current = "test_logic_reset"

\* the engine operations that emit or queue I/O
IoOps ==
    {"write", "write_tms", "change_state", "go_idle", "write_ir", "write_dr",
     "read", "read_dr", "reset", "sync"}

\* C15: after terminate(), every engine operation that would emit or queue
\* I/O (write, write_tms/change_state, go_idle, write_ir, write_dr, read,
\* read_dr, reset, sync) fails with a misuse error, and on that failure the
\* output buffer, the carry and the logical state pointer are left unchanged.
C15_TerminatedSessionRefuses ==
    (call.op \in IoOps /\ ~pre.ftdi) =>
        /\ err = "AssertionError"
        /\ write_buff = pre.buff
        /\ last = pre.last
        /\ current = pre.current

\* C16: for every (current state, target) pair, the event sequence that
\* change_state passes to write_tms has at most 7 events, so the TMS bits
\* occupy only payload bits 0..6 and payload bit 7 of every write-TMS frame
\* is the TDI carry value and never a TMS event bit.
C16_AtMostSevenEvents ==
    (call.op \in {"change_state", "go_idle"} /\ err = "none") =>
        /\ Len(TmsEvents) <= 7
        /\ Len(frames) = 1
        /\ BitOf(frames[1][3], 7) = pre.last

\* C17: from each of the 16 TAP states, replaying five TMS=1 events with
\* handle_events leaves the current state at test_logic_reset, and
\* test_logic_reset is stable under any further TMS=1 events (six and seven
\* events end there as well, and its own TMS=1 exit is itself).
C17_FiveOnesReset ==
    /\ sm_pc = "ones" => current = "test_logic_reset"
    /\ getx("test_logic_reset", 1) = "test_logic_reset"

\* five TMS=1 events replayed from shift_ir, which needs all five
C17_Witness ==
    /\ sm_pc = "ones"
    /\ sm_start = "shift_ir"
    /\ Len(sm_events.events) = 5
    /\ handle_events(sm_start, << 1, 1, 1, 1 >>) # "test_logic_reset"
    /\ current = "test_logic_reset"

\* C18: with the remote TAP a copy of the 16-state machine that starts in
\* test_logic_reset, steps once per TMS bit of each write-TMS frame in the
\* order frames reach the transport, and stays in place during data shift
\* frames: after any sequence of change_state, go_idle, write_ir, write_dr,
\* read_dr and facility operations (and sync), whenever the output buffer is
\* empty - after an operation, or at a transport read inside one - the remote
\* TAP state equals the engine's logical state pointer.
C18_RemoteTapFollowsPointer ==
    /\ write_buff = <<>> => tap = current
    /\ \A i \in 1..Len(xfers) :
           (xfers[i].kind = "read" /\ xfers[i].buffered = <<>>) =>
               xfers[i].tap = xfers[i].current

\* C19: over any sequence of operations, the bytes handed to the transport
\* are in the order in which the operations that produced them were issued:
\* no operation writes directly to the transport while earlier frames are
\* still waiting in the output buffer (in particular reset() does not
\* overtake frames queued before it), and a flush always happens before
\* teardown so that terminate() never discards queued, unsent frames.
C19_TransportKeepsIssueOrder ==
    /\ \A i \in 1..Len(xfers) :
           xfers[i].kind = "write" =>
               (xfers[i].buffered = <<>> \/ xfers[i].data = xfers[i].buffered)
    /\ (call.op = "terminate" /\ pre.ftdi /\ pre.buff # <<>>) =>
           Written(xfers) = << pre.buff >>

\* C20: over any sequence of the public operations write, change_state,
\* write_ir, write_dr and read_dr, a carry set by one write is consumed by
\* exactly the next write_tms: every bit passed to a write call is emitted
\* exactly once (in a data frame or as payload bit 7 of a write-TMS frame),
\* so no deferred bit is overwritten and lost by a second write issued
\* before the next state change - a write that finds a deferred bit emits
\* that bit ahead of its own data.
C20_DeferredBitNotLost ==
    (call.op = "write" /\ pre.call.op = "write" /\ pre.written
                       /\ pre.err = "none" /\ err = "none") =>
        BitsOfFrames(frames, 1, Len(frames)) =
            << pre.call.tail >> \o SubSeq(call.bits, 1, Len(call.bits) - 1)

====
